---- MODULE Spec2Model ----
(***************************************************************************)
(* Model of the audio tool handler of the OpenRouter multimodal MCP server *)
(* (src/src/tool-handlers/analyze-audio.ts): one invocation of             *)
(* handleAnalyzeAudio against a remote API whose answers are chosen        *)
(* nondeterministically.  The handler is cut at its awaits: every action   *)
(* is the synchronous code between the return of one remote operation and  *)
(* the issue of the next one (or the return / throw of the handler).       *)
(*                                                                         *)
(* JavaScript values: a string that is undefined and a string that is      *)
(* empty are both falsy and are used by the handler only through           *)
(* truthiness tests, so both are written "".                               *)
(***************************************************************************)
EXTENDS Integers, Sequences, FiniteSets, TLC

VARIABLES
  args,          \* request.params.arguments: [audio_url, model]
  defaultModel,  \* third parameter of handleAnalyzeAudio ("" = undefined)
  envBackup,     \* process.env.OPENROUTER_DEFAULT_MODEL_AUDIO_BACKUP ("" = unset)
  pc,            \* position of the handler
  buffer,        \* const buffer (bytes of the payload)
  format,        \* const format
  model,         \* let model (line 161)
  primaryError,  \* catch (primaryError)
  backupError,   \* catch (backupError)
  freeModel,     \* const freeModel
  calls,         \* remote operations issued so far, in order, with their outcome
  result         \* what the caller of handleAnalyzeAudio observes

vars == <<args, defaultModel, envBackup, pc, buffer, format, model,
          primaryError, backupError, freeModel, calls, result>>

\* Process start-up (the server entry point, src/unnamed/part_000)
VARIABLES
  config,        \* the file named by --config=: "none", "unreadable" or its content
  envApiKey,     \* process.env.OPENROUTER_API_KEY ("" = unset)
  envAudio,      \* process.env.OPENROUTER_DEFAULT_MODEL_AUDIO ("" = unset)
  stdinFirst,    \* the first chunk that arrives on stdin
  mcpOptions,    \* let mcpOptions (line 72)
  listening,     \* the once('data') listener is registered and has not run
  bootpc,        \* position of the entry point
  server         \* what new OpenRouterMultimodalServer(mcpOptions) produced

bootVars == <<config, envApiKey, envAudio, stdinFirst, mcpOptions, listening,
              bootpc, server>>

\* Application of a pure function of the handler to one input
VARIABLES
  probe          \* [fn, input, output]

\* Invocations served concurrently: the handler variables above are those of
\* the invocation that is running; the others are suspended at an await
VARIABLES
  inv,           \* suspended invocations: their local variables
  cur,           \* the invocation that is running
  script         \* the answers the remote gives to each invocation

concVars == <<inv, cur, script>>

\* Variables that one invocation of the handler never touches
otherVars == <<bootVars, probe, concVars>>

-----------------------------------------------------------------------------
(* Bounds and input sets *)

MaxListing == 2

DEFAULT_AUDIO_MODEL == "mistralai/voxtral-small-24b-2507"

Undefined == ""

FreeAudioId == "org/Voxtral-mini:FREE"

\* model ids a request, a caller or the environment may name
ConfigIds == {"m1", "m2", FreeAudioId}

\* ids the remote listing may contain
ListedIds == {"m1", FreeAudioId, "acme/whisper-free", "free/vision-x", "openai/whisper-1"}

AudioUrls == {Undefined, "https://h/a.mp3", "dir\\clip"}

Buffers == {<< >>, <<82, 73, 70, 70>>, <<255, 251>>, <<0, 0>>}

FetchErrors == {"Failed to fetch audio: Not Found", "ENOENT: no such file"}

CompletionErrors == {"429 rate limited", "404 no such model"}

ListingError == "listing unavailable"

ServedElsewhere == "provider/served-model"

Null == "null"

RECURSIVE SeqsUpTo(_, _)
SeqsUpTo(S, n) ==
  IF n = 0 THEN {<< >>}
  ELSE LET shorter == SeqsUpTo(S, n - 1)
       IN  shorter \cup {Append(s, x) : s \in shorter, x \in S}

Listings == SeqsUpTo(ListedIds, MaxListing)

-----------------------------------------------------------------------------
(* String helpers (JavaScript String.prototype) *)

UpperAlpha == "ABCDEFGHIJKLMNOPQRSTUVWXYZ"
LowerAlpha == "abcdefghijklmnopqrstuvwxyz"

CharAt(s, i) == SubSeq(s, i, i)

LowerChar(c) ==
  LET ks == {k \in 1..26 : CharAt(UpperAlpha, k) = c}
  IN  IF ks = {} THEN c ELSE CharAt(LowerAlpha, CHOOSE k \in ks : TRUE)

RECURSIVE LowerFrom(_, _)
LowerFrom(s, i) ==
  IF i > Len(s) THEN "" ELSE LowerChar(CharAt(s, i)) \o LowerFrom(s, i + 1)

toLowerCase(s) == LowerFrom(s, 1)

includes(s, sub) ==
  \E i \in 1..(Len(s) - Len(sub) + 1) : SubSeq(s, i, i + Len(sub) - 1) = sub

RECURSIVE ReplaceFrom(_, _, _, _)
ReplaceFrom(s, i, c, d) ==
  IF i > Len(s) THEN ""
  ELSE (IF CharAt(s, i) = c THEN d ELSE CharAt(s, i)) \o ReplaceFrom(s, i + 1, c, d)

LastIndexOf(s, c) ==
  LET hits == {i \in 1..Len(s) : CharAt(s, i) = c}
  IN  IF hits = {} THEN 0 ELSE CHOOSE i \in hits : \A j \in hits : j <= i

-----------------------------------------------------------------------------
(* Payload loader and format detector *)

Cwd == "/work"

normalizePath(filePath) == ReplaceFrom(filePath, 1, "\\", "/")

SchemeChars == "abcdefghijklmnopqrstuvwxyzABCDEFGHIJKLMNOPQRSTUVWXYZ0123456789+-."

IsAlpha(c) == includes(UpperAlpha, c) \/ includes(LowerAlpha, c)

\* new URL(path) succeeds: the string starts with a scheme, ALPHA *(ALPHA / DIGIT / "+" / "-" / ".") ":"
isUrl(path) ==
  \E k \in 2..Len(path) :
    /\ CharAt(path, k) = ":"
    /\ IsAlpha(CharAt(path, 1))
    /\ \A j \in 1..(k - 1) : includes(SchemeChars, CharAt(path, j))

\* the file fetchAudio reads when audioPath is not a URL (lines 48-55)
resolvedPath(audioPath) ==
  LET normalizedPath == normalizePath(audioPath)
  IN  IF CharAt(normalizedPath, 1) = "/" THEN normalizedPath
      ELSE Cwd \o "/" \o normalizedPath

\* the remote operation fetchAudio issues for audioPath
FetchCall(audioPath) ==
  IF isUrl(audioPath)
  THEN [op |-> "fetch", target |-> audioPath]
  ELSE [op |-> "readFile", target |-> resolvedPath(audioPath)]

\* path.extname (posix): from the last "." of the last path segment, "" when
\* there is none or when the segment starts with it
extname(p) ==
  LET slash == LastIndexOf(p, "/")
      dot   == LastIndexOf(p, ".")
  IN  IF dot = 0 \/ dot <= slash + 1 THEN "" ELSE SubSeq(p, dot, Len(p))

\* buffer[i]: undefined (written -1) past the end of the buffer
ByteAt(b, i) == IF i < Len(b) THEN b[i + 1] ELSE -1

\* x & 0xE0 for a byte x; undefined & 0xE0 is 0
And0xE0(x) == IF x = -1 THEN 0 ELSE ((x \div 32) % 8) * 32

detectAudioFormat_extFirst(b, filename) ==
  LET ext == toLowerCase(extname(filename))
  IN  IF ext = ".wav" THEN "wav"
      ELSE IF ext = ".mp3" THEN "mp3"
      ELSE IF ByteAt(b, 0) = 82 /\ ByteAt(b, 1) = 73 /\ ByteAt(b, 2) = 70 /\ ByteAt(b, 3) = 70
      THEN "wav"
      ELSE IF ByteAt(b, 0) = 255 /\ And0xE0(ByteAt(b, 1)) = 224
      THEN "mp3"
      ELSE "wav"

detectAudioFormat(b, filename) ==
  IF ByteAt(b, 0) = 82 /\ ByteAt(b, 1) = 73 /\ ByteAt(b, 2) = 70 /\ ByteAt(b, 3) = 70
  THEN "wav"
  ELSE IF ByteAt(b, 0) = 255 /\ And0xE0(ByteAt(b, 1)) = 224
  THEN "mp3"
  ELSE LET ext == toLowerCase(extname(filename))
       IN  IF ext = ".wav" THEN "wav"
           ELSE IF ext = ".mp3" THEN "mp3"
           ELSE "wav"

-----------------------------------------------------------------------------
(* Free-model discovery: findSuitableFreeAudioModel *)

\* what openai.models.list() may answer: a failure, a response without data,
\* or a listing
ListOutcomes ==
  {[ok |-> FALSE, data |-> << >>, nodata |-> FALSE],
   [ok |-> TRUE, data |-> << >>, nodata |-> TRUE]}
  \cup {[ok |-> TRUE, data |-> d, nodata |-> FALSE] : d \in Listings}

fallbackModel == IF envBackup # "" THEN envBackup ELSE DEFAULT_AUDIO_MODEL

\* model.id.toLowerCase() (line 95), evaluated once per listed id
modelIdOf == [id \in ListedIds |-> toLowerCase(id)]

IsFreeAudioId_caseSensitive(id) ==
  /\ includes(id, "free")
  /\ \/ includes(id, "audio")
     \/ includes(id, "voxtral")
     \/ includes(id, "whisper")

IsFreeAudioId(id) ==
  LET modelId == modelIdOf[id]
  IN  /\ includes(modelId, "free")
      /\ \/ includes(modelId, "audio")
         \/ includes(modelId, "voxtral")
         \/ includes(modelId, "whisper")

\* the filter predicate (lines 94-98), evaluated once per listed id
isFreeAudio == [id \in ListedIds |-> IsFreeAudioId(id)]

freeAudioModels(data) == SelectSeq(data, LAMBDA id : isFreeAudio[id])

findSuitableFreeAudioModel_failEmpty(outcome) ==
  IF ~outcome.ok THEN ""
  ELSE IF outcome.nodata \/ Len(outcome.data) = 0 THEN fallbackModel
  ELSE IF Len(freeAudioModels(outcome.data)) > 0 THEN freeAudioModels(outcome.data)[1]
  ELSE fallbackModel

findSuitableFreeAudioModel(outcome) ==
  IF ~outcome.ok THEN fallbackModel
  ELSE IF outcome.nodata \/ Len(outcome.data) = 0 THEN fallbackModel
  ELSE IF Len(freeAudioModels(outcome.data)) > 0 THEN freeAudioModels(outcome.data)[1]
  ELSE fallbackModel

-----------------------------------------------------------------------------
(* Values the handler builds *)

NoError == [type |-> "none", code |-> "", message |-> ""]

Error(message) == [type |-> "Error", code |-> "", message |-> message]

McpError(code, message) == [type |-> "McpError", code |-> code, message |-> message]

ZeroUsage == [prompt_tokens |-> 0, completion_tokens |-> 0, total_tokens |-> 0]

SomeUsage == [prompt_tokens |-> 5, completion_tokens |-> 2, total_tokens |-> 7]

\* what chat.completions.create may resolve to for a call on model m: a
\* completion with one choice, whose content may be null; the response names
\* the model that served it, which the remote chooses
Responses(m) ==
  [id : {"gen-1"},
   model : {m, ServedElsewhere},
   choices : {<<[message |-> [content |-> c]]>> : c \in {"transcript", Null}},
   usage : {SomeUsage}]

Pending == [outcome |-> "pending"]

Returned(envelope) == [outcome |-> "returned", value |-> envelope]

Thrown(error) == [outcome |-> "thrown", error |-> error]

SelectModel_defaultFirst ==
  IF defaultModel # "" THEN defaultModel
  ELSE IF args.model # "" THEN args.model
  ELSE DEFAULT_AUDIO_MODEL

\* line 161 (and, evaluated again, line 287)
SelectModel ==
  IF args.model # "" THEN args.model
  ELSE IF defaultModel # "" THEN defaultModel
  ELSE DEFAULT_AUDIO_MODEL

SuccessEnvelope_requested(response) ==
  [content |-> <<[type |-> "text",
                  text |-> [id |-> response.id,
                            analysis |-> IF response.choices[1].message.content = Null
                                         THEN ""
                                         ELSE response.choices[1].message.content,
                            model |-> model,
                            usage |-> response.usage]]>>]

\* lines 175-187, 202-214, 228-240, 258-270; text is the object given to
\* JSON.stringify
SuccessEnvelope(response) ==
  [content |-> <<[type |-> "text",
                  text |-> [id |-> response.id,
                            analysis |-> IF response.choices[1].message.content = Null
                                         THEN ""
                                         ELSE response.choices[1].message.content,
                            model |-> response.model,
                            usage |-> response.usage]]>>]

ErrorEnvelope_lastTried(error) ==
  [content |-> <<[type |-> "text",
                  text |-> [error |-> error.message,
                            model |-> IF freeModel # "" THEN freeModel ELSE SelectModel,
                            usage |-> ZeroUsage]]>>,
   isError |-> TRUE]

\* lines 281-293
ErrorEnvelope(error) ==
  [content |-> <<[type |-> "text",
                  text |-> [error |-> error.message,
                            model |-> SelectModel,
                            usage |-> ZeroUsage]]>>,
   isError |-> TRUE]

OuterCatch_swallow(error) == Returned(ErrorEnvelope(error))

OuterCatch_rethrow(error) == Thrown(error)

\* the outer catch, lines 276-294
OuterCatch(error) ==
  IF error.type = "McpError" THEN Thrown(error) ELSE Returned(ErrorEnvelope(error))

BackupUsable_never(backupModel, m) == FALSE

BackupUsable_anySet(backupModel, m) == backupModel # ""

\* line 191
BackupUsable(backupModel, m) == backupModel # "" /\ backupModel # m

FreeUsableAfterBackup_notPrimary(fm, m, backupModel) == fm # "" /\ fm # m

\* line 218
FreeUsableAfterBackup(fm, m, backupModel) == fm # "" /\ fm # m /\ fm # backupModel

\* line 248
FreeUsableAfterPrimary(fm, m) == fm # "" /\ fm # m

ThrownAfterBackup_primary == primaryError

\* line 242: throw backupError
ThrownAfterBackup == backupError

\* line 272: throw primaryError
ThrownAfterPrimary == primaryError

-----------------------------------------------------------------------------
(* The log of remote operations *)

Issue(log, op, target) ==
  Append(log, [op |-> op, target |-> target, status |-> "pending", err |-> "", info |-> ""])

Settle(log, status, err, info) ==
  [log EXCEPT ![Len(log)] = [@ EXCEPT !.status = status, !.err = err, !.info = info]]

Completion == "chat.completions.create"

ModelsList == "models.list"

\* values of the variables a specification does not use
NoConfig ==
  [kind |-> "none", OPENROUTER_API_KEY |-> "", apiKey |-> "",
   OPENROUTER_DEFAULT_MODEL |-> "", defaultModel |-> ""]

NoMessage == [kind |-> "none", OPENROUTER_API_KEY |-> "", apiKey |-> "",
              OPENROUTER_DEFAULT_MODEL |-> "", defaultModel |-> ""]

NoOptions == [defined |-> FALSE, apiKey |-> "", defaultModel |-> ""]

NoServer ==
  [constructed |-> FALSE, threw |-> FALSE, toolHandlers |-> FALSE,
   apiKey |-> "", defaultAudioModel |-> ""]

NoProbe == [fn |-> "none"]

ConcIdle ==
  /\ inv = << >>
  /\ cur = 0
  /\ script = << >>

BootIdle ==
  /\ config = NoConfig
  /\ envApiKey = ""
  /\ envAudio = ""
  /\ stdinFirst = NoMessage
  /\ mcpOptions = NoOptions
  /\ listening = FALSE
  /\ bootpc = "idle"
  /\ server = NoServer

-----------------------------------------------------------------------------
(* The handler *)

Init ==
  /\ args \in [audio_url : AudioUrls, model : {Undefined} \cup ConfigIds]
  /\ defaultModel \in {Undefined, "m1", "m2"}
  /\ envBackup \in {Undefined} \cup ConfigIds
  /\ pc = "start"
  /\ buffer = << >>
  /\ format = ""
  /\ model = ""
  /\ primaryError = NoError
  /\ backupError = NoError
  /\ freeModel = ""
  /\ calls = << >>
  /\ result = Pending
  /\ BootIdle
  /\ probe = NoProbe
  /\ ConcIdle

\* lines 119-128 and 276-279: the required argument is missing
ValidationFault ==
  /\ pc = "start"
  /\ args.audio_url = ""
  /\ result' = OuterCatch(McpError("InvalidParams", "audio_url parameter is required"))
  /\ pc' = "done"
  /\ UNCHANGED <<args, defaultModel, envBackup, buffer, format, model,
                 primaryError, backupError, freeModel, calls>>
  /\ UNCHANGED otherVars

\* lines 119-131 and 37-55: the payload fetch is issued
StartFetch ==
  /\ pc = "start"
  /\ args.audio_url # ""
  /\ calls' = Issue(calls, FetchCall(args.audio_url).op, FetchCall(args.audio_url).target)
  /\ pc' = "await_fetch"
  /\ UNCHANGED <<args, defaultModel, envBackup, buffer, format, model,
                 primaryError, backupError, freeModel, result>>
  /\ UNCHANGED otherVars

FetchFails_retry ==
  /\ pc = "await_fetch"
  /\ \E e \in FetchErrors :
       IF Len(calls) < 2
       THEN /\ calls' = Issue(Settle(calls, "failed", e, ""), calls[1].op, calls[1].target)
            /\ result' = result
            /\ pc' = pc
       ELSE /\ calls' = Settle(calls, "failed", e, "")
            /\ result' = OuterCatch(Error(e))
            /\ pc' = "done"
  /\ UNCHANGED <<args, defaultModel, envBackup, buffer, format, model,
                 primaryError, backupError, freeModel>>
  /\ UNCHANGED otherVars

\* lines 41-43 and 55: the response is not ok, or the fetch or the read rejects
FetchFails ==
  /\ pc = "await_fetch"
  /\ \E e \in FetchErrors :
       /\ calls' = Settle(calls, "failed", e, "")
       /\ result' = OuterCatch(Error(e))
  /\ pc' = "done"
  /\ UNCHANGED <<args, defaultModel, envBackup, buffer, format, model,
                 primaryError, backupError, freeModel>>
  /\ UNCHANGED otherVars

\* lines 131-172: the payload arrives, the primary completion call is issued
FetchOk ==
  /\ pc = "await_fetch"
  /\ \E b \in Buffers :
       /\ buffer' = b
       /\ format' = detectAudioFormat(b, args.audio_url)
  /\ model' = SelectModel
  /\ calls' = Issue(Settle(calls, "ok", "", ""), Completion, model')
  /\ pc' = "await_primary"
  /\ UNCHANGED <<args, defaultModel, envBackup, primaryError, backupError,
                 freeModel, result>>
  /\ UNCHANGED otherVars

PrimarySucceeds_fallthrough ==
  /\ pc = "await_primary"
  /\ \E response \in Responses(model) :
       calls' = Issue(Settle(calls, "ok", "", response.model), ModelsList, "")
  /\ pc' = "await_list_primary"
  /\ UNCHANGED <<args, defaultModel, envBackup, buffer, format, model,
                 primaryError, backupError, freeModel, result>>
  /\ UNCHANGED otherVars

\* lines 166-187
PrimarySucceeds ==
  /\ pc = "await_primary"
  /\ \E response \in Responses(model) :
       /\ result' = Returned(SuccessEnvelope(response))
       /\ calls' = Settle(calls, "ok", "", response.model)
  /\ pc' = "done"
  /\ UNCHANGED <<args, defaultModel, envBackup, buffer, format, model,
                 primaryError, backupError, freeModel>>
  /\ UNCHANGED otherVars

\* lines 188-199 and 245-247
PrimaryFails ==
  /\ pc = "await_primary"
  /\ \E e \in CompletionErrors :
       /\ primaryError' = Error(e)
       /\ IF BackupUsable(envBackup, model)
          THEN /\ calls' = Issue(Settle(calls, "failed", e, ""), Completion, envBackup)
               /\ pc' = "await_backup"
          ELSE /\ calls' = Issue(Settle(calls, "failed", e, ""), ModelsList, "")
               /\ pc' = "await_list_primary"
  /\ UNCHANGED <<args, defaultModel, envBackup, buffer, format, model,
                 backupError, freeModel, result>>
  /\ UNCHANGED otherVars

\* lines 193-214
BackupSucceeds ==
  /\ pc = "await_backup"
  /\ \E response \in Responses(envBackup) :
       /\ result' = Returned(SuccessEnvelope(response))
       /\ calls' = Settle(calls, "ok", "", response.model)
  /\ pc' = "done"
  /\ UNCHANGED <<args, defaultModel, envBackup, buffer, format, model,
                 primaryError, backupError, freeModel>>
  /\ UNCHANGED otherVars

\* lines 215-217
BackupFails ==
  /\ pc = "await_backup"
  /\ \E e \in CompletionErrors :
       /\ backupError' = Error(e)
       /\ calls' = Issue(Settle(calls, "failed", e, ""), ModelsList, "")
  /\ pc' = "await_list_backup"
  /\ UNCHANGED <<args, defaultModel, envBackup, buffer, format, model,
                 primaryError, freeModel, result>>
  /\ UNCHANGED otherVars

ListStatus(outcome) == IF outcome.ok THEN "ok" ELSE "failed"

ListErr(outcome) == IF outcome.ok THEN "" ELSE ListingError

ListInfo(outcome) ==
  IF ~outcome.ok THEN ""
  ELSE IF outcome.nodata \/ Len(outcome.data) = 0 THEN "empty"
  ELSE "entries"

\* lines 217-225 and 241-243 (with 83-109): discovery after the backup failed
DiscoveryAfterBackup ==
  /\ pc = "await_list_backup"
  /\ \E outcome \in ListOutcomes :
       LET fm     == findSuitableFreeAudioModel(outcome)
           listed == Settle(calls, ListStatus(outcome), ListErr(outcome), ListInfo(outcome))
       IN  /\ freeModel' = fm
           /\ IF FreeUsableAfterBackup(fm, model, envBackup)
              THEN /\ calls' = Issue(listed, Completion, fm)
                   /\ pc' = "await_free"
                   /\ result' = result
              ELSE /\ calls' = listed
                   /\ pc' = "done"
                   /\ result' = OuterCatch(ThrownAfterBackup)
  /\ UNCHANGED <<args, defaultModel, envBackup, buffer, format, model,
                 primaryError, backupError>>
  /\ UNCHANGED otherVars

\* lines 247-255 and 271-273 (with 83-109): discovery when no backup was tried
DiscoveryAfterPrimary ==
  /\ pc = "await_list_primary"
  /\ \E outcome \in ListOutcomes :
       LET fm     == findSuitableFreeAudioModel(outcome)
           listed == Settle(calls, ListStatus(outcome), ListErr(outcome), ListInfo(outcome))
       IN  /\ freeModel' = fm
           /\ IF FreeUsableAfterPrimary(fm, model)
              THEN /\ calls' = Issue(listed, Completion, fm)
                   /\ pc' = "await_free"
                   /\ result' = result
              ELSE /\ calls' = listed
                   /\ pc' = "done"
                   /\ result' = OuterCatch(ThrownAfterPrimary)
  /\ UNCHANGED <<args, defaultModel, envBackup, buffer, format, model,
                 primaryError, backupError>>
  /\ UNCHANGED otherVars

\* lines 219-240 and 249-270
FreeSucceeds ==
  /\ pc = "await_free"
  /\ \E response \in Responses(freeModel) :
       /\ result' = Returned(SuccessEnvelope(response))
       /\ calls' = Settle(calls, "ok", "", response.model)
  /\ pc' = "done"
  /\ UNCHANGED <<args, defaultModel, envBackup, buffer, format, model,
                 primaryError, backupError, freeModel>>
  /\ UNCHANGED otherVars

FreeFails_retry ==
  /\ pc = "await_free"
  /\ \E e \in CompletionErrors :
       IF Len(calls) < 6
       THEN /\ calls' = Issue(Settle(calls, "failed", e, ""), Completion, freeModel)
            /\ pc' = pc
            /\ result' = result
       ELSE /\ calls' = Settle(calls, "failed", e, "")
            /\ pc' = "done"
            /\ result' = OuterCatch(Error(e))
  /\ UNCHANGED <<args, defaultModel, envBackup, buffer, format, model,
                 primaryError, backupError, freeModel>>
  /\ UNCHANGED otherVars

FreeFails_restart ==
  /\ pc = "await_free"
  /\ \E e \in CompletionErrors :
       calls' = Issue(SubSeq(calls, 1, 1), Completion, model)
  /\ pc' = "await_primary"
  /\ UNCHANGED <<args, defaultModel, envBackup, buffer, format, model,
                 primaryError, backupError, freeModel, result>>
  /\ UNCHANGED otherVars

\* lines 219 and 249: the rejection is not caught before the outer catch
FreeFails ==
  /\ pc = "await_free"
  /\ \E e \in CompletionErrors :
       /\ calls' = Settle(calls, "failed", e, "")
       /\ result' = OuterCatch(Error(e))
  /\ pc' = "done"
  /\ UNCHANGED <<args, defaultModel, envBackup, buffer, format, model,
                 primaryError, backupError, freeModel>>
  /\ UNCHANGED otherVars

Next ==
  \/ ValidationFault
  \/ StartFetch
  \/ FetchFails
  \/ FetchOk
  \/ PrimarySucceeds
  \/ PrimaryFails
  \/ BackupSucceeds
  \/ BackupFails
  \/ DiscoveryAfterBackup
  \/ DiscoveryAfterPrimary
  \/ FreeSucceeds
  \/ FreeFails

Spec == Init /\ [][Next]_vars

\* every remote operation that was issued settles
FairSpec == Spec /\ WF_vars(Next)

-----------------------------------------------------------------------------
(* Reading the log and the result *)

IsFetch(c) == c.op \in {"fetch", "readFile"}

FetchIdx == {i \in DOMAIN calls : IsFetch(calls[i])}

ListIdx == {i \in DOMAIN calls : calls[i].op = ModelsList}

CompletionIdx == {i \in DOMAIN calls : calls[i].op = Completion}

CompletionCalls == SelectSeq(calls, LAMBDA c : c.op = Completion)

LastCompletion == CompletionCalls[Len(CompletionCalls)]

Done == pc = "done"

ReturnedEnvelope == result.outcome = "returned"

IsErrorEnvelope ==
  /\ ReturnedEnvelope
  /\ "isError" \in DOMAIN result.value
  /\ result.value.isError = TRUE

IsSuccessEnvelope ==
  /\ ReturnedEnvelope
  /\ "isError" \notin DOMAIN result.value

EnvelopeText == result.value.content[1].text

\* the primary selection: request model, else caller default, else built-in default
PrimarySelection ==
  IF args.model # Undefined THEN args.model
  ELSE IF defaultModel # Undefined THEN defaultModel
  ELSE DEFAULT_AUDIO_MODEL

\* a backup is configured and differs from the primary
DistinctBackup == envBackup # Undefined /\ envBackup # PrimarySelection

-----------------------------------------------------------------------------
(* Claims *)

\* C1: a successful completion call is the last remote call of the invocation
\* and the invocation has returned with it; in particular after a successful
\* primary call no backup call, no listing call and no free-model call exists.
C1_SuccessIsLastCall ==
  \A i \in CompletionIdx :
    calls[i].status = "ok" =>
      /\ i = Len(calls)
      /\ Done
      /\ IsSuccessEnvelope

C1_Witness ==
  /\ Done
  /\ Len(calls) = 2
  /\ calls[2].op = Completion
  /\ calls[2].status = "ok"
  /\ DistinctBackup

\* C2: when every completion call issued has failed, the error surfaced to the
\* caller is the error of the most recent completion call issued.
C2_MostRecentError ==
  (Done /\ CompletionCalls # << >> /\ \A i \in CompletionIdx : calls[i].status = "failed") =>
    /\ IsErrorEnvelope
    /\ EnvelopeText.error = LastCompletion.err

C2_Witness ==
  /\ Done
  /\ Len(CompletionCalls) = 2
  /\ CompletionCalls[2].target = envBackup
  /\ CompletionCalls[1].status = "failed"
  /\ CompletionCalls[2].status = "failed"
  /\ CompletionCalls[1].err # CompletionCalls[2].err
  /\ IsErrorEnvelope

\* C3: if the listing call fails or returns no entries, no completion call
\* follows it and the failure of the last explicit candidate is surfaced.
C3_NoCandidateWithoutListing ==
  \A i \in ListIdx :
    (calls[i].status = "failed" \/ calls[i].info = "empty") =>
      /\ i = Len(calls)
      /\ Done
      /\ IsErrorEnvelope
      /\ EnvelopeText.error = calls[i - 1].err

\* C4: a missing audio_url ends in a thrown InvalidParams fault and no remote
\* operation is ever issued.
C4_ValidationFault ==
  args.audio_url = Undefined =>
    /\ calls = << >>
    /\ Done => /\ result.outcome = "thrown"
               /\ result.error.type = "McpError"
               /\ result.error.code = "InvalidParams"

C4_Witness == Done /\ args.audio_url = Undefined /\ result.outcome = "thrown"

\* C5: at most one payload fetch, one listing call and three completion calls.
C5_CallBounds ==
  /\ Cardinality(FetchIdx) <= 1
  /\ Cardinality(ListIdx) <= 1
  /\ Cardinality(CompletionIdx) <= 3

C5_Witness ==
  /\ Done
  /\ Cardinality(FetchIdx) = 1
  /\ Cardinality(ListIdx) = 1
  /\ Cardinality(CompletionIdx) = 3

\* C6: the listing call is issued only after the primary call has failed and,
\* when a distinct backup is configured, after the backup call has failed too;
\* when the distinct backup succeeds no listing call is issued.
C6_LazyDiscovery ==
  /\ \A i \in ListIdx :
       /\ \E j \in 1..(i - 1) :
            /\ calls[j].op = Completion
            /\ calls[j].target = PrimarySelection
            /\ calls[j].status = "failed"
       /\ DistinctBackup =>
            \E j \in 1..(i - 1) :
              /\ calls[j].op = Completion
              /\ calls[j].target = envBackup
              /\ calls[j].status = "failed"
  /\ (\E j \in CompletionIdx : calls[j].target = envBackup /\ DistinctBackup
                               /\ calls[j].status = "ok") => ListIdx = {}

C6_Witness ==
  /\ Done
  /\ DistinctBackup
  /\ Len(calls) = 3
  /\ calls[2].status = "failed"
  /\ calls[3].target = envBackup
  /\ calls[3].status = "ok"

\* C7 as stated: when the request model fails and the caller-supplied default
\* is a different id, the caller-supplied default is the next model invoked.
C7_DefaultTriedAfterRequestModel ==
  (/\ args.model # Undefined
   /\ defaultModel # Undefined
   /\ defaultModel # args.model
   /\ Len(CompletionCalls) >= 2) => CompletionCalls[2].target = defaultModel

\* C7: the models invoked are, in order, the primary selection (the first
\* non-empty of request model, caller default, built-in default), then the
\* configured backup if it differs from the primary, then the model returned
\* by discovery if it differs from those; each is invoked only after the
\* previous one failed and no id is invoked twice.
C7_CandidateOrder ==
  LET t == CompletionCalls
      n == Len(t)
  IN  /\ n <= 3
      /\ n >= 1 => t[1].target = PrimarySelection
      /\ n >= 2 => t[2].target = IF DistinctBackup THEN envBackup ELSE freeModel
      /\ n >= 3 => DistinctBackup /\ t[3].target = freeModel
      /\ \A i \in 1..(n - 1) : t[i].status = "failed"
      /\ \A i, j \in 1..n : i # j => t[i].target # t[j].target

C7_Witness ==
  /\ Len(CompletionCalls) = 3
  /\ args.model # Undefined
  /\ defaultModel # Undefined
  /\ defaultModel # args.model

\* C8: a failure envelope has isError = true, zeroed usage and the primary
\* selection as model, whichever candidate produced the error; a success
\* envelope carries no isError.
C8_FailureEnvelope ==
  (Done /\ ReturnedEnvelope) =>
    IF \E i \in CompletionIdx : calls[i].status = "ok"
    THEN IsSuccessEnvelope
    ELSE /\ IsErrorEnvelope
         /\ EnvelopeText.usage.prompt_tokens = 0
         /\ EnvelopeText.usage.completion_tokens = 0
         /\ EnvelopeText.usage.total_tokens = 0
         /\ EnvelopeText.model = PrimarySelection

C8_Witness ==
  /\ Done
  /\ IsErrorEnvelope
  /\ Len(CompletionCalls) = 3
  /\ LastCompletion.status = "failed"
  /\ LastCompletion.target # PrimarySelection

\* C9 as stated: on success the envelope's model is the id of the candidate on
\* which the successful completion call was issued.
C9_ModelIsCandidateId ==
  (Done /\ IsSuccessEnvelope) => EnvelopeText.model = LastCompletion.target

\* C9: on success the envelope's model is the model named by the response of
\* the successful completion call.
C9_ModelIsServedModel ==
  (Done /\ IsSuccessEnvelope) =>
    /\ LastCompletion.status = "ok"
    /\ EnvelopeText.model = LastCompletion.info

C9_Witness ==
  /\ Done
  /\ IsSuccessEnvelope
  /\ Len(CompletionCalls) = 2
  /\ LastCompletion.target = envBackup
  /\ EnvelopeText.model = envBackup

\* C10: with the required argument present the handler never throws: it ends
\* in a well-formed envelope, marked isError after any failure.
C10_AlwaysEnvelope ==
  args.audio_url # Undefined =>
    /\ result.outcome # "thrown"
    /\ Done =>
         /\ ReturnedEnvelope
         /\ Len(result.value.content) = 1
         /\ result.value.content[1].type = "text"
         /\ DOMAIN result.value \subseteq {"content", "isError"}
         /\ (\A i \in CompletionIdx : calls[i].status # "ok") => IsErrorEnvelope

C10_Witness ==
  /\ Done
  /\ Len(calls) = 1
  /\ calls[1].status = "failed"
  /\ IsErrorEnvelope

-----------------------------------------------------------------------------
(* Process start-up: the module body of the entry point *)

\* a || b on strings
Or(a, b) == IF a # "" THEN a ELSE b

\* what --config= may name: nothing, a file require() cannot load, or a file
Configs ==
  {NoConfig, [NoConfig EXCEPT !.kind = "unreadable"]}
  \cup [kind : {"file"}, OPENROUTER_API_KEY : {"", "key-config"},
        apiKey : {"", "key-config-2"},
        OPENROUTER_DEFAULT_MODEL : {""}, defaultModel : {"", "m1"}]

\* the first chunk on stdin: none, not JSON, JSON without params, or JSON with
\* a params object
FirstMessages ==
  {NoMessage, [NoMessage EXCEPT !.kind = "garbage"], [NoMessage EXCEPT !.kind = "noparams"]}
  \cup [kind : {"params"}, OPENROUTER_API_KEY : {"", "key-stdin"},
        apiKey : {"", "key-stdin-2"},
        OPENROUTER_DEFAULT_MODEL : {""}, defaultModel : {"", "m2"}]

\* lines 83-86 and 103-106: the options object built from a source of parameters
OptionsFrom(src) ==
  [defined |-> TRUE,
   apiKey |-> Or(src.OPENROUTER_API_KEY, src.apiKey),
   defaultModel |-> Or(src.OPENROUTER_DEFAULT_MODEL, src.defaultModel)]

ConstructServer_optionsOnly(options) ==
  LET apiKey == options.apiKey
      defaultAudioModel == Or(envAudio, Or(envBackup, DEFAULT_AUDIO_MODEL))
  IN  IF apiKey = ""
      THEN [NoServer EXCEPT !.threw = TRUE]
      ELSE [constructed |-> TRUE, threw |-> FALSE, toolHandlers |-> TRUE,
            apiKey |-> apiKey, defaultAudioModel |-> defaultAudioModel]

\* lines 22-61: the constructor; options never carries defaultAudioModel
ConstructServer(options) ==
  LET apiKey == Or(options.apiKey, envApiKey)
      defaultAudioModel == Or(envAudio, Or(envBackup, DEFAULT_AUDIO_MODEL))
  IN  IF apiKey = ""
      THEN [NoServer EXCEPT !.threw = TRUE]
      ELSE [constructed |-> TRUE, threw |-> FALSE, toolHandlers |-> TRUE,
            apiKey |-> apiKey, defaultAudioModel |-> defaultAudioModel]

HandlerIdle ==
  /\ args = [audio_url |-> "", model |-> ""]
  /\ defaultModel = ""
  /\ pc = "idle"
  /\ buffer = << >>
  /\ format = ""
  /\ model = ""
  /\ primaryError = NoError
  /\ backupError = NoError
  /\ freeModel = ""
  /\ calls = << >>
  /\ result = Pending

BootInit ==
  /\ config \in Configs
  /\ envApiKey \in {"", "key-env"}
  /\ envAudio \in {"", "m1"}
  /\ envBackup \in {"", "m2"}
  /\ stdinFirst \in FirstMessages
  /\ mcpOptions = NoOptions
  /\ listening = FALSE
  /\ bootpc = "config"
  /\ server = NoServer
  /\ HandlerIdle
  /\ probe = NoProbe
  /\ ConcIdle

\* lines 72-95
LoadConfig ==
  /\ bootpc = "config"
  /\ mcpOptions' = IF config.kind = "file" THEN OptionsFrom(config) ELSE mcpOptions
  /\ bootpc' = "stdin"
  /\ UNCHANGED <<config, envApiKey, envAudio, stdinFirst, listening, server>>
  /\ UNCHANGED <<vars, probe, concVars>>

\* lines 97-112: the listener is registered; it cannot run before the module
\* body has run to its end
ListenStdin ==
  /\ bootpc = "stdin"
  /\ listening' = (mcpOptions.apiKey = "")
  /\ bootpc' = "construct"
  /\ UNCHANGED <<config, envApiKey, envAudio, stdinFirst, mcpOptions, server>>
  /\ UNCHANGED <<vars, probe, concVars>>

\* lines 114-115: an exception of the constructor ends the process
Construct ==
  /\ bootpc = "construct"
  /\ server' = ConstructServer(mcpOptions)
  /\ bootpc' = IF server'.threw THEN "crashed" ELSE "running"
  /\ UNCHANGED <<config, envApiKey, envAudio, stdinFirst, mcpOptions, listening>>
  /\ UNCHANGED <<vars, probe, concVars>>

\* lines 99-111: the first chunk arrives while the process runs
StdinData ==
  /\ bootpc = "running"
  /\ listening
  /\ stdinFirst.kind # "none"
  /\ listening' = FALSE
  /\ mcpOptions' = IF stdinFirst.kind = "params" THEN OptionsFrom(stdinFirst) ELSE mcpOptions
  /\ UNCHANGED <<config, envApiKey, envAudio, stdinFirst, bootpc, server>>
  /\ UNCHANGED <<vars, probe, concVars>>

BootNext ==
  \/ LoadConfig
  \/ ListenStdin
  \/ Construct
  \/ StdinData

allVars == <<vars, bootVars, probe, concVars>>

SpecBoot == BootInit /\ [][BootNext]_allVars

\* the credential the configuration file gives
KeyFromConfig ==
  IF config.kind # "file" THEN ""
  ELSE IF config.OPENROUTER_API_KEY # "" THEN config.OPENROUTER_API_KEY
  ELSE config.apiKey

\* the credential the first stdin message gives
KeyFromHandshake ==
  IF stdinFirst.kind # "params" THEN ""
  ELSE IF stdinFirst.OPENROUTER_API_KEY # "" THEN stdinFirst.OPENROUTER_API_KEY
  ELSE stdinFirst.apiKey

Booted == bootpc \in {"running", "crashed"}

\* C11: the constructor throws exactly when neither the options nor
\* OPENROUTER_API_KEY give a credential, and then no tool handlers are
\* installed; otherwise the server is constructed with the credential.
C11_StartupNeedsCredential ==
  Booted =>
    IF KeyFromConfig = "" /\ envApiKey = ""
    THEN /\ bootpc = "crashed"
         /\ server.threw
         /\ ~server.constructed
         /\ ~server.toolHandlers
    ELSE /\ bootpc = "running"
         /\ server.constructed
         /\ server.toolHandlers
         /\ server.apiKey = (IF KeyFromConfig # "" THEN KeyFromConfig ELSE envApiKey)

C11_Witness ==
  /\ bootpc = "crashed"
  /\ config.kind = "file"
  /\ ~server.toolHandlers

\* C18: when neither the configuration file nor the environment gives a
\* credential and the first stdin message carries one, the server is
\* constructed with that credential.
C18_HandshakeCredential ==
  (Booted /\ KeyFromConfig = "" /\ envApiKey = "" /\ KeyFromHandshake # "") =>
    /\ server.constructed
    /\ server.apiKey = KeyFromHandshake

-----------------------------------------------------------------------------
(* Claims about the fallback chain, continued *)

\* C12: after the primary call failed, the next remote call is a completion on
\* the backup exactly when a backup is configured and differs from the
\* primary, and the listing call otherwise; every call has settled before the
\* next one is issued, and a free-model call comes after the listing.
C12_BackupIffDistinct ==
  /\ \A i \in 1..(Len(calls) - 1) : calls[i].status # "pending"
  /\ (Len(calls) >= 2 /\ calls[2].status = "failed") =>
       /\ Len(calls) >= 3
       /\ IF envBackup # Undefined /\ envBackup # calls[2].target
          THEN calls[3].op = Completion /\ calls[3].target = envBackup
          ELSE calls[3].op = ModelsList
  /\ \A i \in CompletionIdx : i > 3 => calls[i - 1].op = ModelsList

C12_Witness ==
  /\ Len(calls) = 3
  /\ envBackup # Undefined
  /\ envBackup = calls[2].target
  /\ calls[3].op = ModelsList

\* C13: no model id receives two completion calls, and when discovery returns
\* an id that was already tried the invocation ends without another call.
C13_NoModelTwice ==
  /\ \A i, j \in CompletionIdx : i # j => calls[i].target # calls[j].target
  /\ \A i \in ListIdx :
       (/\ calls[i].status # "pending"
        /\ \E j \in 1..(i - 1) : calls[j].op = Completion /\ calls[j].target = freeModel) =>
         /\ i = Len(calls)
         /\ Done
         /\ IsErrorEnvelope

C13_Witness ==
  /\ Done
  /\ Len(calls) = 4
  /\ calls[4].op = ModelsList
  /\ calls[4].info = "entries"
  /\ freeModel = envBackup
  /\ calls[3].target = envBackup

NoMatchListing == [ok |-> TRUE, data |-> <<"m1">>, nodata |-> FALSE]

\* C14: the error of a failure envelope is never the listing's error, nothing
\* but the validation fault is thrown, and after a failed listing discovery
\* has returned what it returns for a listing without a free audio model.
C14_ListingFailureNotEscalated ==
  /\ IsErrorEnvelope => EnvelopeText.error \in FetchErrors \cup CompletionErrors
  /\ result.outcome = "thrown" => result.error.type = "McpError"
  /\ \A i \in ListIdx :
       calls[i].status = "failed" =>
         freeModel = findSuitableFreeAudioModel(NoMatchListing)

C14_Witness ==
  /\ Done
  /\ IsErrorEnvelope
  /\ \E i \in ListIdx : calls[i].status = "failed" /\ calls[i].err = ListingError

\* C16: when the payload cannot be obtained there is exactly one fetch attempt,
\* no completion and no listing call, and the handler returns an isError
\* envelope carrying the fetch error.
C16_FetchFailureIsSoft ==
  (calls # << >> /\ IsFetch(calls[1]) /\ calls[1].status = "failed") =>
    /\ Len(calls) = 1
    /\ Done
    /\ IsErrorEnvelope
    /\ EnvelopeText.error = calls[1].err

C16_Witness ==
  /\ Done
  /\ Len(calls) = 1
  /\ calls[1].op = "readFile"
  /\ calls[1].status = "failed"
  /\ result.outcome = "returned"

\* C20: every invocation eventually reaches a terminal outcome and stays there.
C20_Terminates ==
  <>[](pc = "done" /\ result.outcome \in {"returned", "thrown"})

C20_Witness ==
  /\ Done
  /\ Len(CompletionCalls) = 3
  /\ result.outcome = "returned"
  /\ \A i \in DOMAIN calls : calls[i].status # "pending"

-----------------------------------------------------------------------------
(* The pure functions of the handler, applied to one input *)

MaxBufLen == 4

\* bytes of the RIFF magic number, of an MPEG frame sync, and others
ProbeBytes == {82, 73, 70, 255, 224}

ProbeBuffers == SeqsUpTo(ProbeBytes, MaxBufLen)

ProbeFilenames == {"https://h/a.mp3", "dir\\clip", "A.WAV", "a.b/.mp3"}

DetectProbes ==
  [fn : {"detectAudioFormat"}, buffer : ProbeBuffers, filename : ProbeFilenames,
   outcome : {NoMatchListing}, applied : {FALSE}, out : {""}]

DiscoverProbes ==
  [fn : {"findSuitableFreeAudioModel"}, buffer : {<< >>}, filename : {""},
   outcome : ListOutcomes, applied : {FALSE}, out : {""}]

PureInit ==
  /\ \/ probe \in DetectProbes /\ envBackup = Undefined
     \/ probe \in DiscoverProbes /\ envBackup \in {Undefined} \cup ConfigIds
  /\ HandlerIdle
  /\ BootIdle
  /\ ConcIdle

\* lines 62-78
ApplyDetect ==
  /\ probe.fn = "detectAudioFormat"
  /\ ~probe.applied
  /\ probe' = [probe EXCEPT !.applied = TRUE,
                            !.out = detectAudioFormat(probe.buffer, probe.filename)]
  /\ UNCHANGED <<vars, bootVars, concVars>>

\* lines 83-109
ApplyDiscover ==
  /\ probe.fn = "findSuitableFreeAudioModel"
  /\ ~probe.applied
  /\ probe' = [probe EXCEPT !.applied = TRUE,
                            !.out = findSuitableFreeAudioModel(probe.outcome)]
  /\ UNCHANGED <<vars, bootVars, concVars>>

PureNext ==
  \/ ApplyDetect
  \/ ApplyDiscover

SpecPure == PureInit /\ [][PureNext]_allVars

\* the listed ids that contain "free" and an audio marker, whatever their case
ExpectedFreeAudioIds == {FreeAudioId, "acme/whisper-free"}

Discovered == probe.fn = "findSuitableFreeAudioModel" /\ probe.applied

\* C15: for a listing that contains a free audio id, discovery returns the
\* first such id in listing order, in its original casing.
C15_FirstMatchInListingOrder ==
  LET data == probe.outcome.data
      hits == {i \in DOMAIN data : data[i] \in ExpectedFreeAudioIds}
  IN  (Discovered /\ probe.outcome.ok /\ hits # {}) =>
        /\ probe.out \in ExpectedFreeAudioIds
        /\ \E i \in hits : /\ probe.out = data[i]
                           /\ \A j \in hits : i <= j

C15_Witness ==
  /\ Discovered
  /\ Len(probe.outcome.data) = 2
  /\ probe.outcome.data[1] = "openai/whisper-1"
  /\ probe.outcome.data[2] = FreeAudioId
  /\ probe.out = FreeAudioId

Detected == probe.fn = "detectAudioFormat" /\ probe.applied

HasRiffHeader(b) == Len(b) >= 4 /\ SubSeq(b, 1, 4) = <<82, 73, 70, 70>>

HasFrameSync(b) == Len(b) >= 2 /\ b[1] = 255 /\ b[2] >= 224

\* the lowercase extension of each probed filename
ExpectedExt(filename) ==
  CASE filename = "https://h/a.mp3" -> ".mp3"
    [] filename = "A.WAV" -> ".wav"
    [] OTHER -> ""

\* C19: detectAudioFormat always answers wav or mp3; a RIFF header gives wav
\* and a frame sync gives mp3 whatever the filename; without a magic number
\* the lowercase extension decides, and wav is the default.
C19_DetectTotalAndOrdered ==
  Detected =>
    /\ probe.out \in {"wav", "mp3"}
    /\ HasRiffHeader(probe.buffer) => probe.out = "wav"
    /\ HasFrameSync(probe.buffer) => probe.out = "mp3"
    /\ (~HasRiffHeader(probe.buffer) /\ ~HasFrameSync(probe.buffer)) =>
         probe.out = IF ExpectedExt(probe.filename) = ".mp3" THEN "mp3" ELSE "wav"

C19_Witness ==
  /\ Detected
  /\ HasRiffHeader(probe.buffer)
  /\ probe.filename = "https://h/a.mp3"
  /\ probe.out = "wav"

-----------------------------------------------------------------------------
(* Concurrent invocations.  Invocation 0 is served alone, before the others; *)
(* invocations 1..MaxConcurrent are then served together, one running       *)
(* between two awaits while the others are suspended.  Invocation 1 has the *)
(* arguments and the remote answers of invocation 0.                        *)

MaxConcurrent == 2

Invocations == 0..MaxConcurrent

\* the local variables of the invocation that is running
Running ==
  [args |-> args, defaultModel |-> defaultModel, pc |-> pc, buffer |-> buffer,
   format |-> format, model |-> model, primaryError |-> primaryError,
   backupError |-> backupError, freeModel |-> freeModel, calls |-> calls,
   result |-> result]

\* lines 114-118: an invocation that has not run yet
Fresh(a) ==
  [args |-> a, defaultModel |-> Undefined, pc |-> "start", buffer |-> << >>,
   format |-> "", model |-> "", primaryError |-> NoError,
   backupError |-> NoError, freeModel |-> "", calls |-> << >>,
   result |-> Pending]

Ctx(i) == IF i = cur THEN Running ELSE inv[i]

ConcInputs == [audio_url : {Undefined, "https://h/a.mp3"}, model : {Undefined, "m1"}]

FetchAnswerOk == [ok |-> TRUE, err |-> "", buffer |-> <<255, 251>>]

FetchAnswerFail == [ok |-> FALSE, err |-> "ENOENT: no such file", buffer |-> << >>]

CompletionOk == [ok |-> TRUE, err |-> ""]

CompletionFail(e) == [ok |-> FALSE, err |-> e]

AllFail ==
  <<CompletionFail("429 rate limited"), CompletionFail("404 no such model"),
    CompletionFail("429 rate limited")>>

ListingOfFree == [ok |-> TRUE, data |-> <<FreeAudioId>>, nodata |-> FALSE]

ListingFailed == [ok |-> FALSE, data |-> << >>, nodata |-> FALSE]

\* the answers of the remote to one invocation: to its fetch, to its first,
\* second and third completion call, and to its listing call
ScriptFetchFails ==
  [fetch |-> FetchAnswerFail, completion |-> AllFail, list |-> ListingFailed]

ScriptFirstOk ==
  [fetch |-> FetchAnswerOk, completion |-> [AllFail EXCEPT ![1] = CompletionOk],
   list |-> ListingFailed]

ScriptSecondOk ==
  [fetch |-> FetchAnswerOk, completion |-> [AllFail EXCEPT ![2] = CompletionOk],
   list |-> ListingOfFree]

ScriptThirdOk ==
  [fetch |-> FetchAnswerOk, completion |-> [AllFail EXCEPT ![3] = CompletionOk],
   list |-> ListingOfFree]

ScriptAllFail ==
  [fetch |-> FetchAnswerOk, completion |-> AllFail, list |-> ListingOfFree]

ScriptNoListing ==
  [fetch |-> FetchAnswerOk, completion |-> AllFail, list |-> ListingFailed]

Scripts ==
  {ScriptFetchFails, ScriptFirstOk, ScriptSecondOk, ScriptThirdOk, ScriptAllFail,
   ScriptNoListing}

\* the answers given to the invocations served next to invocation 1
OtherScripts == {ScriptFetchFails, ScriptThirdOk, ScriptNoListing}

\* the remote operations of the running invocation that have settled were
\* answered as its script says
Scripted ==
  LET sc == script[cur]
  IN  \A k \in DOMAIN calls :
        calls[k].status # "pending" =>
          IF IsFetch(calls[k])
          THEN /\ calls[k].status = (IF sc.fetch.ok THEN "ok" ELSE "failed")
               /\ calls[k].err = sc.fetch.err
               /\ sc.fetch.ok => buffer = sc.fetch.buffer
          ELSE IF calls[k].op = ModelsList
          THEN /\ calls[k].status = ListStatus(sc.list)
               /\ calls[k].info = ListInfo(sc.list)
               /\ freeModel = findSuitableFreeAudioModel(sc.list)
          ELSE LET n == Cardinality({j \in 1..k : calls[j].op = Completion})
               IN  /\ calls[k].status = (IF sc.completion[n].ok THEN "ok" ELSE "failed")
                   /\ calls[k].err = sc.completion[n].err
                   /\ sc.completion[n].ok =>
                        /\ calls[k].info = calls[k].target
                        /\ result.outcome = "returned"
                        /\ result.value.content[1].text.analysis = "transcript"

ConcInit ==
  /\ \E a1 \in {a \in ConcInputs : a.audio_url # Undefined}, a2 \in ConcInputs :
       inv = [i \in Invocations |-> Fresh(IF i <= 1 THEN a1 ELSE a2)]
  /\ \E s1 \in Scripts, s2 \in OtherScripts :
       script = [i \in Invocations |-> IF i <= 1 THEN s1 ELSE s2]
  /\ cur = 0
  /\ args = inv[0].args
  /\ defaultModel = inv[0].defaultModel
  /\ envBackup \in {Undefined, "m2"}
  /\ pc = "start"
  /\ buffer = << >>
  /\ format = ""
  /\ model = ""
  /\ primaryError = NoError
  /\ backupError = NoError
  /\ freeModel = ""
  /\ calls = << >>
  /\ result = Pending
  /\ BootIdle
  /\ probe = NoProbe

\* the synchronous code of the running invocation between two awaits
Run == Next /\ Scripted'

Switch_sharedModel(j) ==
  /\ j # cur
  /\ j # 0
  /\ inv[j].pc # "done"
  /\ pc # "start"
  /\ cur = 0 => pc = "done"
  /\ inv' = [inv EXCEPT ![cur] = Running]
  /\ cur' = j
  /\ args' = inv[j].args
  /\ defaultModel' = inv[j].defaultModel
  /\ pc' = inv[j].pc
  /\ buffer' = inv[j].buffer
  /\ format' = inv[j].format
  /\ model' = model
  /\ primaryError' = inv[j].primaryError
  /\ backupError' = inv[j].backupError
  /\ freeModel' = inv[j].freeModel
  /\ calls' = inv[j].calls
  /\ result' = inv[j].result
  /\ UNCHANGED <<envBackup, bootVars, probe, script>>

\* lines 131, 166, 193, 217, 219, 247, 249: at an await (or at its end) the
\* running invocation is suspended with its local variables and another one
\* starts or resumes with its own; an invocation that was called runs to its
\* first await
Switch(j) ==
  /\ j # cur
  /\ j # 0
  /\ inv[j].pc # "done"
  /\ pc # "start"
  /\ cur = 0 => pc = "done"
  /\ inv' = [inv EXCEPT ![cur] = Running]
  /\ cur' = j
  /\ args' = inv[j].args
  /\ defaultModel' = inv[j].defaultModel
  /\ pc' = inv[j].pc
  /\ buffer' = inv[j].buffer
  /\ format' = inv[j].format
  /\ model' = inv[j].model
  /\ primaryError' = inv[j].primaryError
  /\ backupError' = inv[j].backupError
  /\ freeModel' = inv[j].freeModel
  /\ calls' = inv[j].calls
  /\ result' = inv[j].result
  /\ UNCHANGED <<envBackup, bootVars, probe, script>>

ConcNext ==
  \/ Run
  \/ \E j \in Invocations : Switch(j)

SpecConc == ConcInit /\ [][ConcNext]_allVars

\* C17: whatever the interleaving with other invocations, an invocation issues
\* the remote calls and returns the result of the same invocation served
\* alone against the same remote answers.
C17_IndependentInvocations ==
  Ctx(0).pc = "done" =>
    /\ Len(Ctx(1).calls) <= Len(Ctx(0).calls)
    /\ \A k \in DOMAIN Ctx(1).calls :
         /\ Ctx(1).calls[k].op = Ctx(0).calls[k].op
         /\ Ctx(1).calls[k].target = Ctx(0).calls[k].target
         /\ Ctx(1).calls[k].status # "pending" => Ctx(1).calls[k] = Ctx(0).calls[k]
    /\ Ctx(1).pc = "done" =>
         /\ Ctx(1).calls = Ctx(0).calls
         /\ Ctx(1).result = Ctx(0).result

C17_Witness ==
  /\ cur = 1
  /\ pc = "done"
  /\ Len(calls) = 5
  /\ inv[2].pc = "await_backup"
  /\ inv[2].args # args

====
